---- MODULE Spec2Model ----
(***************************************************************************)
(* A model of the numeric helpers of src/js/methods.js (Marz): the          *)
(* redshift fitter's binarySearch / getFit, the correlation engine's        *)
(* circShift / getPeaks / rmsNormalisePeaks, and the signal conditioner's   *)
(* removeBadPixels / removeCosmicRay / adjustError / normalise*.            *)
(*                                                                         *)
(* JavaScript arrays are sequences; the JS index i is position i + 1.       *)
(* JavaScript numbers are exact rationals <<n, d>> in lowest terms with     *)
(* d > 0, extended with NaN = <<0, 0>>, Infinity = <<1, 0>> and             *)
(* -Infinity = <<-1, 0>>; the value `undefined` is <<0, -1>> and `null`     *)
(* is <<0, -2>>.  binarySearch works on plain integers.                     *)
(***************************************************************************)
EXTENDS Integers, Sequences, FiniteSets, TLC

VARIABLES bs, pk, sh, ae, bp, cr, na, gf, nx, md, ip, mt, wf

vars == <<bs, pk, sh, ae, bp, cr, na, gf, nx, md, ip, mt, wf>>

\* ------------------------------------------------------------------ bounds
MaxZ == 6
MaxPeakLen == 6
MaxPeakVal == 2
MaxShiftLen == 5
MaxShiftVal == 2
MaxErrLen == 4
MaxErrVal == 3
MaxPixLen == 3
MaxNumPoints == 2
MaxRayLen == 6
MaxDeviationFactor == 2
MaxPointCheck == 2
MaxCosmicIterations == 2
MaxAreaLen == 3
MaxAreaVal == 3
MaxFitZ == 3
MaxFitLen == 3
MaxFitWindow == 3
MaxCorrLen == 6
MaxCorrVal == 2
MaxDevLen == 3
MaxClipValue == 2
MaxClipPasses == 2
MaxWave == 3
MaxInterpPad == 2
MaxFlux == 2
MaxMatchLen == 3
MaxWinLen == 5
MaxWinVal == 2
MaxWinNum == 3
MaxTaper == 2
\* Math.sqrt is exact to 1/SqrtScale of the denominator (and exact on squares)
SqrtScale == 100

\* ------------------------------------------ configuration globals
normalised_area == 100000

\* max_error, the variance sentinel (set outside this file)
max_error == 9

\* minVal and maxVal, the bounds of a usable intensity (set outside this file)
minVal == -5

maxVal == 8

\* --------------------------------------------------------- JS numbers
NaN == <<0, 0>>
PosInf == <<1, 0>>
NegInf == <<-1, 0>>
Undefined == <<0, -1>>
Null == <<0, -2>>

RECURSIVE GCD(_, _)
GCD(a, b) == IF b = 0 THEN a ELSE GCD(b, a % b)

AbsInt(a) == IF a < 0 THEN -a ELSE a

SignInt(a) == IF a < 0 THEN -1 ELSE IF a > 0 THEN 1 ELSE 0

\* the rational n / d (d # 0) in lowest terms with a positive denominator
Norm(n, d) ==
    LET g == GCD(AbsInt(n), AbsInt(d))
        s == IF d < 0 THEN -1 ELSE 1
    IN  <<(s * n) \div g, (s * d) \div g>>

Int2Num(n) == <<n, 1>>

\* ToNumber: undefined becomes NaN, null becomes 0
ToNum(x) == IF x = Undefined THEN NaN ELSE IF x = Null THEN <<0, 1>> ELSE x

IsNaN(x) == ToNum(x) = NaN

IsFinite(x) == ToNum(x)[2] > 0

JNeg(x) == LET a == ToNum(x) IN <<-a[1], a[2]>>

JAbs(x) == LET a == ToNum(x) IN <<AbsInt(a[1]), a[2]>>

JAdd(x, y) ==
    LET a == ToNum(x)
        b == ToNum(y)
    IN  IF a = NaN \/ b = NaN THEN NaN
        ELSE IF a[2] = 0 /\ b[2] = 0 THEN (IF a = b THEN a ELSE NaN)
        ELSE IF a[2] = 0 THEN a
        ELSE IF b[2] = 0 THEN b
        ELSE LET g == GCD(a[2], b[2])
             IN  Norm(a[1] * (b[2] \div g) + b[1] * (a[2] \div g),
                      (a[2] \div g) * b[2])

JSub(x, y) == JAdd(x, JNeg(y))

JMul(x, y) ==
    LET a == ToNum(x)
        b == ToNum(y)
    IN  IF a = NaN \/ b = NaN THEN NaN
        ELSE IF a[2] = 0 \/ b[2] = 0
             THEN (IF a[1] = 0 \/ b[1] = 0 THEN NaN
                   ELSE <<SignInt(a[1]) * SignInt(b[1]), 0>>)
        ELSE LET g == GCD(AbsInt(a[1]), b[2])
                 h == GCD(AbsInt(b[1]), a[2])
             IN  Norm((a[1] \div g) * (b[1] \div h), (a[2] \div h) * (b[2] \div g))

\* IEEE division: x/0 is +-Infinity, 0/0 and Infinity/Infinity are NaN
JDiv(x, y) ==
    LET a == ToNum(x)
        b == ToNum(y)
    IN  IF a = NaN \/ b = NaN THEN NaN
        ELSE IF a[2] = 0 /\ b[2] = 0 THEN NaN
        ELSE IF a[2] = 0
             THEN <<a[1] * (IF b[1] < 0 THEN -1 ELSE 1), 0>>
        ELSE IF b[2] = 0 THEN <<0, 1>>
        ELSE IF b[1] = 0
             THEN (IF a[1] = 0 THEN NaN ELSE <<SignInt(a[1]), 0>>)
        ELSE LET g == GCD(AbsInt(a[1]), AbsInt(b[1]))
                 h == GCD(a[2], b[2])
             IN  Norm((a[1] \div g) * (b[2] \div h), (a[2] \div h) * (b[1] \div g))

\* x < y; every comparison with NaN is false
JLt(x, y) ==
    LET a == ToNum(x)
        b == ToNum(y)
    IN  IF a = NaN \/ b = NaN THEN FALSE
        ELSE IF a[2] = 0 THEN a = NegInf /\ b # NegInf
        ELSE IF b[2] = 0 THEN b = PosInf
        ELSE LET g == GCD(a[2], b[2])
             IN  a[1] * (b[2] \div g) < b[1] * (a[2] \div g)

JGt(x, y) == JLt(y, x)

\* x == y on numbers (NaN equals nothing)
JEq(x, y) ==
    LET a == ToNum(x)
        b == ToNum(y)
    IN  a # NaN /\ b # NaN /\ a = b

JLe(x, y) == JLt(x, y) \/ JEq(x, y)

JGe(x, y) == JLe(y, x)

\* array[i] for a JS index i: out of range reads give undefined
At(a, i) == IF i >= 0 /\ i < Len(a) THEN a[i + 1] ELSE Undefined

\* array[x] for a JS number x: a property that is no index reads undefined
AtNum(a, x) == IF ToNum(x)[2] = 1 THEN At(a, ToNum(x)[1]) ELSE Undefined

\* Math.floor of a finite number
JFloor(x) == LET a == ToNum(x) IN IF a[2] > 0 THEN <<a[1] \div a[2], 1>> ELSE a

\* x % y: the remainder has the sign of the dividend
JMod(x, y) ==
    LET a == ToNum(x)
        b == ToNum(y)
    IN  IF a = NaN \/ b = NaN \/ a[2] = 0 \/ b[1] = 0 THEN NaN
        ELSE IF b[2] = 0 THEN a
        ELSE LET q == JFloor(JDiv(JAbs(a), JAbs(b)))
                 r == JSub(JAbs(a), JMul(q, JAbs(b)))
             IN  IF a[1] < 0 THEN JNeg(r) ELSE r

\* the largest r in lo..hi with r * r <= m
RECURSIVE ISqrtBetween(_, _, _)
ISqrtBetween(m, lo, hi) ==
    IF lo >= hi THEN lo
    ELSE LET mid == (lo + hi + 1) \div 2
         IN  IF mid * mid <= m THEN ISqrtBetween(m, mid, hi)
             ELSE ISqrtBetween(m, lo, mid - 1)

\* Math.sqrt(x), also Math.pow(x, 0.5): the root of n/d is the root of
\* n*d over d, rounded down at SqrtScale digits when it is irrational
JSqrt(x) ==
    LET a == ToNum(x)
    IN  IF a = NaN \/ a = NegInf THEN NaN
        ELSE IF a = PosInf THEN PosInf
        ELSE IF a[1] < 0 THEN NaN
        ELSE LET m == a[1] * a[2] * SqrtScale * SqrtScale
             IN  Norm(ISqrtBetween(m, 0, 46340), a[2] * SqrtScale)

\* the sum of the array from index i on, added to acc as a for loop does
RECURSIVE SumFrom(_, _, _)
SumFrom(a, i, acc) ==
    IF ~(i < Len(a)) THEN acc ELSE SumFrom(a, i + 1, JAdd(acc, At(a, i)))

\* array.slice(start, end) for integer start and end
Slice(a, start, end) ==
    LET n == Len(a)
        s == IF start < 0 THEN (IF n + start < 0 THEN 0 ELSE n + start)
             ELSE IF start > n THEN n ELSE start
        e == IF end < 0 THEN (IF n + end < 0 THEN 0 ELSE n + end)
             ELSE IF end > n THEN n ELSE end
    IN  IF e <= s THEN <<>> ELSE [k \in 1..(e - s) |-> a[s + k]]

\* all arrays over S of length 0..n
SeqsUpTo(S, n) == UNION {[1..k -> S] : k \in 0..n}

\* ------------------------------------------- state before any call
BSIdle == [pc |-> "idle", data |-> <<>>, val |-> 0, ret |-> <<0, 0>>]

SHIdle == [pc |-> "idle", data |-> <<>>, num |-> <<0, 1>>, out |-> <<>>,
           xcor |-> <<>>, peaks |-> <<>>]

PKIdle == [pc |-> "idle", final |-> <<>>, both |-> "undefined",
           ret |-> [index |-> <<>>, value |-> <<>>]]

AEIdle == [pc |-> "idle", variance |-> <<>>, broadenWindow |-> 1,
           errorMedianWindow |-> 1, errorMedianWeight |-> <<1, 1>>, out |-> <<>>]

BPIdle == [pc |-> "idle", intensity |-> <<>>, variance |-> <<>>, numPoints |-> 1,
           outIntensity |-> <<>>, outVariance |-> <<>>]

CRIdle == [pc |-> "idle", intensity |-> <<>>, variance |-> <<>>, k |-> 0,
           constant |-> <<0, 1>>, cosmicIterations |-> 1, deviationFactor |-> 1,
           pointCheck |-> 1, outIntensity |-> <<>>, outVariance |-> <<>>]

\* null passed where an array is expected (no modelled array holds null)
NullArray == <<Null>>

NAIdle == [pc |-> "idle", array |-> <<>>, variance |-> NullArray, val |-> Null,
           outArray |-> <<>>, outVariance |-> NullArray, ret |-> Undefined]

GFIdle == [pc |-> "idle", zs |-> <<>>, xcor |-> <<>>, val |-> 0, fitWindow |-> 1,
           bestIndex |-> -1, fitCalled |-> FALSE, points |-> <<>>,
           nonIntegerIndex |-> NaN, outcome |-> "none"]

NXIdle == [pc |-> "idle", final |-> <<>>, trimAmount |-> <<0, 1>>, xcor |-> <<>>,
           peaks |-> <<>>]

MDIdle == [pc |-> "idle", input |-> <<>>, intensity |-> <<>>, clipValue |-> 0,
           meanDeviation |-> Undefined, passes |-> 0]

IPIdle == [pc |-> "idle", xinterp |-> <<>>, xvals |-> <<>>, yvals |-> <<>>,
           result |-> <<>>]

MTIdle == [pc |-> "idle", fft |-> <<>>, templates |-> <<>>, trimAmount |-> <<0, 1>>,
           fft0 |-> <<>>, templates0 |-> <<>>, results |-> <<>>]

WTIdle == [pc |-> "idle", data |-> <<>>, window |-> 1, zeroPixelWidth |-> 0,
           taperWidth |-> 0, out |-> <<>>, outside |-> {}]

\* ------------------------------------------------------- binarySearch
\* One pass of the while loop of binarySearch, then the rest of the loop.
RECURSIVE binarySearchLoopNoHigh(_, _, _, _)
binarySearchLoopNoHigh(data, val, lowIndex, highIndex) ==
    IF ~(highIndex > lowIndex) THEN <<lowIndex, highIndex>>
    ELSE LET index == (highIndex + lowIndex) \div 2
             sub == data[index + 1]
         IN  IF data[lowIndex + 1] = val THEN <<lowIndex, lowIndex>>
             ELSE IF sub = val THEN <<index, index>>
             ELSE IF sub > val
                  THEN (IF highIndex = index THEN <<lowIndex, highIndex>>
                        ELSE binarySearchLoopNoHigh(data, val, lowIndex, index))
             ELSE (IF lowIndex = index THEN <<lowIndex, highIndex>>
                   ELSE binarySearchLoopNoHigh(data, val, index, highIndex))

RECURSIVE binarySearchLoop(_, _, _, _)
binarySearchLoop(data, val, lowIndex, highIndex) ==
    IF ~(highIndex > lowIndex) THEN <<lowIndex, highIndex>>
    ELSE LET index == (highIndex + lowIndex) \div 2
             sub == data[index + 1]
         IN  IF data[lowIndex + 1] = val THEN <<lowIndex, lowIndex>>
             ELSE IF sub = val THEN <<index, index>>
             ELSE IF data[highIndex + 1] = val THEN <<highIndex, highIndex>>
             ELSE IF sub > val
                  THEN (IF highIndex = index THEN <<lowIndex, highIndex>>
                        ELSE binarySearchLoop(data, val, lowIndex, index))
             ELSE (IF lowIndex = index THEN <<lowIndex, highIndex>>
                   ELSE binarySearchLoop(data, val, index, highIndex))

binarySearch(data, val) == binarySearchLoop(data, val, 0, Len(data) - 1)

\* the strictly increasing array holding the members of S
RECURSIVE SortedSeq(_)
SortedSeq(S) ==
    IF S = {} THEN <<>>
    ELSE LET m == CHOOSE x \in S : \A y \in S : x <= y
         IN  <<m>> \o SortedSeq(S \ {m})

StrictlyIncreasing(data) ==
    \A i \in 1..(Len(data) - 1) : data[i] < data[i + 1]

BSInit ==
    \E S \in (SUBSET (0..MaxZ)) \ {{}} : \E v \in (-1)..(MaxZ + 1) :
        bs = [pc |-> "call", data |-> SortedSeq(S), val |-> v, ret |-> <<0, 0>>]

BinarySearchCall ==
    /\ bs.pc = "call"
    /\ bs' = [bs EXCEPT !.pc = "done", !.ret = binarySearch(bs.data, bs.val)]
    /\ UNCHANGED <<pk, sh, ae, bp, cr, na, gf, nx, md, ip, mt, wf>>

\* ----------------------------------------------------------- getPeaks
\* the maximum test of getPeaks with the two next neighbours compared strictly
isMaxPeakStrict(final, i) ==
    /\ JGt(At(final, i), At(final, i + 1))
    /\ JGt(At(final, i), At(final, i + 2))
    /\ JGt(At(final, i), At(final, i - 1))
    /\ JGt(At(final, i), At(final, i - 2))

isMaxPeak(final, i) ==
    /\ JGe(At(final, i), At(final, i + 1))
    /\ JGe(At(final, i), At(final, i + 2))
    /\ JGt(At(final, i), At(final, i - 1))
    /\ JGt(At(final, i), At(final, i - 2))

isMinPeak(final, i) ==
    /\ JLe(At(final, i), At(final, i + 1))
    /\ JLe(At(final, i), At(final, i + 2))
    /\ JLt(At(final, i), At(final, i - 1))
    /\ JLt(At(final, i), At(final, i - 2))

\* the for loop of getPeaks from index i on; both is "true" or "false"
RECURSIVE getPeaksLoop(_, _, _, _, _)
getPeaksLoop(final, both, i, is, vals) ==
    IF ~(i < Len(final) - 2) THEN [index |-> is, value |-> vals]
    ELSE IF isMaxPeak(final, i)
         THEN getPeaksLoop(final, both, i + 1, Append(is, i), Append(vals, At(final, i)))
    ELSE IF both = "true" /\ isMinPeak(final, i)
         THEN getPeaksLoop(final, both, i + 1, Append(is, i), Append(vals, At(final, i)))
    ELSE getPeaksLoop(final, both, i + 1, is, vals)

\* both is "true", "false" or "undefined" (argument left out: defaults to true)
getPeaks(final, both) ==
    getPeaksLoop(final, IF both = "undefined" THEN "true" ELSE both, 2, <<>>, <<>>)

\* ---------------------------------------------------------- circShift
\* the array data after circShift(data, num); num is a JS number
circShift(data, num) ==
    LET temp == data
        l == Len(data)
    IN  [k \in 1..l |-> AtNum(temp, JMod(JAdd(Int2Num(k - 1), num), Int2Num(l)))]

SHInit ==
    \E d \in SeqsUpTo({Int2Num(v) : v \in 0..MaxShiftVal}, MaxShiftLen) \ {<<>>} :
        sh = [SHIdle EXCEPT !.pc = "call", !.data = d]

\* a direct call circShift(data, num) with a whole, non-negative shift
CircShiftCall ==
    /\ sh.pc = "call"
    /\ \E n \in 0..(MaxShiftLen + 1) :
          sh' = [sh EXCEPT !.pc = "shifted", !.num = Int2Num(n),
                           !.out = circShift(sh.data, Int2Num(n))]
    /\ UNCHANGED <<bs, pk, ae, bp, cr, na, gf, nx, md, ip, mt, wf>>

PeakExample ==
    <<Int2Num(0), Int2Num(0), Int2Num(1), Int2Num(3), Int2Num(1),
      Int2Num(0), Int2Num(3), Int2Num(1), Int2Num(0), Int2Num(0)>>

PKInit ==
    \E f \in SeqsUpTo({Int2Num(v) : v \in 0..MaxPeakVal}, MaxPeakLen) \cup {PeakExample} :
        \E b \in {"true", "false", "undefined"} :
            pk = [pc |-> "call", final |-> f, both |-> b,
                  ret |-> [index |-> <<>>, value |-> <<>>]]

GetPeaksCall ==
    /\ pk.pc = "call"
    /\ pk' = [pk EXCEPT !.pc = "done", !.ret = getPeaks(pk.final, pk.both)]
    /\ UNCHANGED <<bs, sh, ae, bp, cr, na, gf, nx, md, ip, mt, wf>>

\* -------------------------------------------------------- adjustError
\* v inserted into the ascending array a, after the elements not above it
RECURSIVE InsertAsc(_, _)
InsertAsc(a, v) ==
    IF a = <<>> THEN <<v>>
    ELSE IF JLt(v, Head(a)) THEN <<v>> \o a
    ELSE <<Head(a)>> \o InsertAsc(Tail(a), v)

\* array.slice().sort(function(a,b){return a-b;})
RECURSIVE SortAsc(_)
SortAsc(a) == IF a = <<>> THEN <<>> ELSE InsertAsc(SortAsc(Tail(a)), Head(a))

Reverse(a) == [k \in 1..Len(a) |-> a[Len(a) + 1 - k]]

\* array.slice().sort(function(a,b){return b-a;})
SortDesc(a) == Reverse(SortAsc(a))

\* the first loop of broadenError / maxMedianAdjust: num + 2 copies of the
\* first entry below max_error (no entry: the window stays empty)
RECURSIVE winSeed(_, _, _)
winSeed(data, num, i) ==
    IF ~(i < Len(data)) THEN <<>>
    ELSE IF JLt(At(data, i), Int2Num(max_error))
         THEN [k \in 1..(num + 2) |-> At(data, i)]
    ELSE winSeed(data, num, i + 1)

\* the second loop: entries below max_error are pushed until the window
\* holds `window` values
RECURSIVE winFill(_, _, _, _)
winFill(data, window, win, i) ==
    IF ~(i < Len(data)) THEN win
    ELSE IF Len(win) < window
         THEN (IF JLt(At(data, i), Int2Num(max_error))
               THEN winFill(data, window, Append(win, At(data, i)), i + 1)
               ELSE winFill(data, window, win, i + 1))
    ELSE win

\* while (index < data.length && data[index] >= max_error) index++
RECURSIVE skipMaxError(_, _)
skipMaxError(data, index) ==
    IF index < Len(data) /\ JGe(At(data, index), Int2Num(max_error))
    THEN skipMaxError(data, index + 1)
    ELSE index

\* the window after the push and the splice(0, 1) of pass i of the third loop
winSlide(data, num, win, i) ==
    LET index == skipMaxError(data, i + num)
        pushed == IF index >= Len(data) THEN Append(win, At(win, Len(win) - 1))
                  ELSE Append(win, At(data, index))
    IN  Tail(pushed)

\* the third loop of broadenError: the window's maximum for entries below
\* max_error, the entry itself otherwise
RECURSIVE broadenLoop(_, _, _, _, _)
broadenLoop(data, num, win, i, result) ==
    IF ~(i < Len(data)) THEN result
    ELSE IF JLt(At(data, i), Int2Num(max_error))
         THEN LET w == winSlide(data, num, win, i)
              IN  broadenLoop(data, num, w, i + 1, Append(result, At(SortDesc(w), 0)))
    ELSE broadenLoop(data, num, win, i + 1, Append(result, At(data, i)))

\* the array data after broadenError(data, window), window odd
broadenError(data, window) ==
    LET num == (window - 1) \div 2
        win == winFill(data, window, winSeed(data, num, 0), 0)
    IN  broadenLoop(data, num, win, 0, <<>>)

\* the third loop of maxMedianAdjust: errorMedianWeight times the window's
\* element num in ascending order
RECURSIVE medianLoop(_, _, _, _, _, _)
medianLoop(data, num, errorMedianWeight, win, i, result) ==
    IF ~(i < Len(data)) THEN result
    ELSE IF JLt(At(data, i), Int2Num(max_error))
         THEN LET w == winSlide(data, num, win, i)
              IN  medianLoop(data, num, errorMedianWeight, w, i + 1,
                             Append(result, JMul(errorMedianWeight, At(SortAsc(w), num))))
    ELSE medianLoop(data, num, errorMedianWeight, win, i + 1, Append(result, At(data, i)))

\* the array data after maxMedianAdjust: result is first copied over data,
\* then data[i] is raised to result[i] where result[i] > data[i]
maxMedianAdjust(data, window, errorMedianWeight) ==
    LET num == (window - 1) \div 2
        win == winFill(data, window, winSeed(data, num, 0), 0)
        result == medianLoop(data, num, errorMedianWeight, win, 0, <<>>)
        copied == [k \in 1..Len(data) |-> result[k]]
    IN  [k \in 1..Len(data) |->
            IF JGt(result[k], copied[k]) THEN result[k] ELSE copied[k]]

adjustError(variance, broadenWindow, errorMedianWindow, errorMedianWeight) ==
    maxMedianAdjust(broadenError(variance, broadenWindow), errorMedianWindow,
                    errorMedianWeight)

AEInit ==
    \E v \in SeqsUpTo({Int2Num(x) : x \in (1..MaxErrVal) \cup {max_error}}, MaxErrLen) :
      \E bw \in {1, 3, 5} : \E mw \in {1, 3, 5} : \E wt \in {<<7, 10>>, <<1, 1>>} :
        ae = [pc |-> "call", variance |-> v, broadenWindow |-> bw,
              errorMedianWindow |-> mw, errorMedianWeight |-> wt, out |-> <<>>]

AdjustErrorCall ==
    /\ ae.pc = "call"
    /\ ae' = [ae EXCEPT !.pc = "done",
                        !.out = adjustError(ae.variance, ae.broadenWindow,
                                            ae.errorMedianWindow, ae.errorMedianWeight)]
    /\ UNCHANGED <<bs, pk, sh, bp, cr, na, gf, nx, md, ip, mt, wf>>

\* ---------------------------------------------------- removeBadPixels
\* x == null: true of null and of undefined
IsNullish(x) == x = Null \/ x = Undefined

badIndex(intensity, variance, index) ==
    LET i == At(intensity, index)
        v == At(variance, index)
    IN  \/ IsNaN(i) \/ IsNaN(v) \/ IsNullish(i) \/ IsNullish(v)
        \/ JGt(i, Int2Num(maxVal)) \/ JLt(i, Int2Num(minVal))
        \/ JLt(v, Int2Num(0))

\* the inner loop of removeBadPixels from j on: <<r, e, c>>
RECURSIVE neighbourSums(_, _, _, _, _, _, _)
neighbourSums(intensity, variance, j, last, r, e, c) ==
    IF ~(j < last) THEN <<r, e, c>>
    ELSE IF j >= 0 /\ j < Len(intensity) /\ ~badIndex(intensity, variance, j)
         THEN neighbourSums(intensity, variance, j + 1, last,
                            JAdd(r, At(intensity, j)), JAdd(e, At(variance, j)), c + 1)
    ELSE neighbourSums(intensity, variance, j + 1, last, r, e, c)

\* the outer loop of removeBadPixels from i on, writing into the arrays it
\* reads: <<intensity, variance>> afterwards
RECURSIVE removeBadPixelsLoop(_, _, _, _)
removeBadPixelsLoop(intensity, variance, numPoints, i) ==
    IF ~(i < Len(intensity)) THEN <<intensity, variance>>
    ELSE IF badIndex(intensity, variance, i)
         THEN LET s == neighbourSums(intensity, variance, i - numPoints,
                                     i + 1 + numPoints, Int2Num(0), Int2Num(0), 0)
                  r == IF s[3] # 0 THEN JDiv(s[1], Int2Num(s[3])) ELSE s[1]
                  e == IF s[3] # 0 THEN JDiv(s[2], Int2Num(s[3])) ELSE s[2]
              IN  removeBadPixelsLoop([intensity EXCEPT ![i + 1] = r],
                                      [variance EXCEPT ![i + 1] = e], numPoints, i + 1)
    ELSE removeBadPixelsLoop(intensity, variance, numPoints, i + 1)

removeBadPixels(intensity, variance, numPoints) ==
    removeBadPixelsLoop(intensity, variance, numPoints, 0)

\* intensity samples: NaN, two usable values and one above maxVal
PixIntensities == {NaN, Int2Num(2), Int2Num(4), Int2Num(maxVal + 1)}

PixVariances == {Int2Num(-1), Int2Num(1), Int2Num(3)}

BPInit ==
    \E n \in 1..MaxPixLen : \E i \in [1..n -> PixIntensities] :
      \E v \in [1..n -> PixVariances] : \E np \in 1..MaxNumPoints :
        bp = [pc |-> "call", intensity |-> i, variance |-> v, numPoints |-> np,
              outIntensity |-> <<>>, outVariance |-> <<>>]

RemoveBadPixelsCall ==
    /\ bp.pc = "call"
    /\ LET r == removeBadPixels(bp.intensity, bp.variance, bp.numPoints)
       IN  bp' = [bp EXCEPT !.pc = "done", !.outIntensity = r[1], !.outVariance = r[2]]
    /\ UNCHANGED <<bs, pk, sh, ae, cr, na, gf, nx, md, ip, mt, wf>>

\* ---------------------------------------------------- removeCosmicRay
\* the neighbour test of the replacement average, with the comparison
\* against rms left out
nearMeanAlways(intensity, j, mean, rms) ==
    j >= 0 /\ j < Len(intensity)

\* j >= 0 && j < intensity.length && Math.abs(intensity[j]-mean) < rms
nearMean(intensity, j, mean, rms) ==
    j >= 0 /\ j < Len(intensity) /\ JLt(JAbs(JSub(At(intensity, j), mean)), rms)

\* the innermost loop of removeCosmicRay from j on: <<r, c>>
RECURSIVE cosmicSums(_, _, _, _, _, _, _)
cosmicSums(intensity, j, last, mean, rms, r, c) ==
    IF ~(j < last) THEN <<r, c>>
    ELSE IF nearMean(intensity, j, mean, rms)
         THEN cosmicSums(intensity, j + 1, last, mean, rms, JAdd(r, At(intensity, j)), c + 1)
    ELSE cosmicSums(intensity, j + 1, last, mean, rms, r, c)

\* Math.pow(intensity[i] - mean, 2) added up from index i on
RECURSIVE SumSqDev(_, _, _, _)
SumSqDev(a, mean, i, acc) ==
    IF ~(i < Len(a)) THEN acc
    ELSE LET d == JSub(At(a, i), mean)
         IN  SumSqDev(a, mean, i + 1, JAdd(acc, JMul(d, d)))

\* the replacement loop of one pass from index i on, writing into the
\* arrays it reads: <<intensity, variance>> afterwards
RECURSIVE cosmicLoop(_, _, _, _, _, _, _)
cosmicLoop(intensity, variance, deviationFactor, pointCheck, mean, rms, i) ==
    IF ~(i < Len(intensity)) THEN <<intensity, variance>>
    ELSE IF JLt(JAbs(JSub(At(intensity, i), mean)), JMul(Int2Num(deviationFactor), rms))
         THEN cosmicLoop(intensity, variance, deviationFactor, pointCheck, mean, rms, i + 1)
    ELSE LET left == IF i > 0 THEN JAbs(JSub(At(intensity, i - 1), At(intensity, i)))
                     ELSE Int2Num(0)
             right == JAbs(JSub(At(intensity, i + 1), At(intensity, i)))
             maxNeighbour == IF i < Len(intensity) - 1
                             THEN (IF JLt(left, right) THEN right ELSE left)
                             ELSE left
         IN  IF JGt(maxNeighbour, JMul(Int2Num(deviationFactor), rms))
             THEN LET s == cosmicSums(intensity, i - pointCheck, i + 1 + pointCheck,
                                      mean, rms, Int2Num(0), 0)
                      r == IF s[2] # 0 THEN JDiv(s[1], Int2Num(s[2])) ELSE s[1]
                  IN  cosmicLoop([intensity EXCEPT ![i + 1] = r],
                                 [variance EXCEPT ![i + 1] = Int2Num(max_error)],
                                 deviationFactor, pointCheck, mean, rms, i + 1)
             ELSE cosmicLoop(intensity, variance, deviationFactor, pointCheck, mean, rms, i + 1)

\* one pass of the outer loop: mean and rms of the array, then the
\* replacement loop
cosmicPass(intensity, variance, deviationFactor, pointCheck) ==
    LET n == Int2Num(Len(intensity))
        mean == JDiv(SumFrom(intensity, 0, Int2Num(0)), n)
        rms == JSqrt(JDiv(SumSqDev(intensity, mean, 0, Int2Num(0)), n))
    IN  cosmicLoop(intensity, variance, deviationFactor, pointCheck, mean, rms, 0)

\* passes n, n + 1, ... of removeCosmicRay
RECURSIVE cosmicPasses(_, _, _, _, _, _)
cosmicPasses(intensity, variance, cosmicIterations, deviationFactor, pointCheck, n) ==
    IF ~(n < cosmicIterations) THEN <<intensity, variance>>
    ELSE LET p == cosmicPass(intensity, variance, deviationFactor, pointCheck)
         IN  cosmicPasses(p[1], p[2], cosmicIterations, deviationFactor, pointCheck, n + 1)

removeCosmicRay(intensity, variance, cosmicIterations, deviationFactor, pointCheck) ==
    cosmicPasses(intensity, variance, cosmicIterations, deviationFactor, pointCheck, 0)

\* arrays that are constant but for one far outlier at index k
CRInit ==
    \E n \in 3..MaxRayLen : \E k \in 0..(n - 1) : \E c \in {0, 3} : \E o \in {-20, 30} :
      \E v \in {1, 2} : \E it \in 1..MaxCosmicIterations :
        \E f \in 1..MaxDeviationFactor : \E pc \in 1..MaxPointCheck :
          cr = [pc |-> "call",
                intensity |-> [j \in 1..n |-> IF j = k + 1 THEN Int2Num(o) ELSE Int2Num(c)],
                variance |-> [j \in 1..n |-> Int2Num(v)],
                k |-> k, constant |-> Int2Num(c), cosmicIterations |-> it,
                deviationFactor |-> f, pointCheck |-> pc,
                outIntensity |-> <<>>, outVariance |-> <<>>]

RemoveCosmicRayCall ==
    /\ cr.pc = "call"
    /\ LET r == removeCosmicRay(cr.intensity, cr.variance, cr.cosmicIterations,
                                cr.deviationFactor, cr.pointCheck)
       IN  cr' = [cr EXCEPT !.pc = "done", !.outIntensity = r[1], !.outVariance = r[2]]
    /\ UNCHANGED <<bs, pk, sh, ae, bp, na, gf, nx, md, ip, mt, wf>>

\* --------------------------------------------------- normaliseViaArea
\* the summing loop of getAreaInArray from index i to end (inclusive)
RECURSIVE areaLoop(_, _, _, _)
areaLoop(array, i, end, area) ==
    IF ~(i <= end) THEN area
    ELSE areaLoop(array, i + 1, end, JAdd(area, JAbs(At(array, i))))

\* getAreaInArray with the end index left out of the sum
getAreaInArrayExclusive(array, start, end) ==
    areaLoop(array, start, end - 1, Int2Num(0))

\* getAreaInArray for whole start and end (null is not passed by
\* normaliseViaArea)
getAreaInArray(array, start, end) ==
    LET s == IF start < 0 THEN 0 ELSE start
        e == IF end > Len(array) THEN Len(array) - 1 ELSE end
    IN  areaLoop(array, s, e, Int2Num(0))

\* [array, variance, ret] after normaliseViaArea(array, variance, val);
\* variance and val may be null, ret is undefined when nothing is returned
normaliseViaArea(array, variance, val) ==
    LET a == IF IsNullish(val) THEN Int2Num(normalised_area) ELSE val
        area == getAreaInArray(array, 0, Len(array) - 1)
    IN  IF JEq(area, Int2Num(0))
        THEN [array |-> array, variance |-> variance, ret |-> Undefined]
        ELSE LET r == JDiv(a, area)
             IN  [array |-> [j \in 1..Len(array) |-> JMul(array[j], r)],
                  variance |-> IF variance # NullArray
                               THEN [j \in 1..Len(array) |-> JMul(variance[j], r)]
                               ELSE variance,
                  ret |-> r]

NAInit ==
    \E n \in 0..MaxAreaLen :
      \E a \in [1..n -> {Int2Num(x) : x \in (-2)..MaxAreaVal}] :
        \E v \in {[j \in 1..n |-> Int2Num(j)], NullArray} :
          \E t \in {Null, Int2Num(0), Int2Num(1), Int2Num(50)} :
            na = [pc |-> "call", array |-> a, variance |-> v, val |-> t,
                  outArray |-> <<>>, outVariance |-> NullArray, ret |-> Undefined]

NormaliseViaAreaCall ==
    /\ na.pc = "call"
    /\ LET r == normaliseViaArea(na.array, na.variance, na.val)
       IN  na' = [na EXCEPT !.pc = "done", !.outArray = r.array,
                           !.outVariance = r.variance, !.ret = r.ret]
    /\ UNCHANGED <<bs, pk, sh, ae, bp, cr, gf, nx, md, ip, mt, wf>>

\* -------------------------------------------------------------- getFit
\* the scan loop of getFit from pass i on: the best index found
RECURSIVE bestIndexLoop(_, _, _, _, _, _)
bestIndexLoop(xcor, startIndex, fitWindow, i, bestPeak, bestIndex) ==
    IF ~(i < fitWindow) THEN bestIndex
    ELSE LET index == startIndex + i
         IN  IF index >= 0 /\ index < Len(xcor) /\ JGt(At(xcor, index), bestPeak)
             THEN bestIndexLoop(xcor, startIndex, fitWindow, i + 1, At(xcor, index), index)
             ELSE bestIndexLoop(xcor, startIndex, fitWindow, i + 1, bestPeak, bestIndex)

\* the pairs [index - 1 + i, v] that fitAroundIndex hands to polynomial
fitPoints(data, index) ==
    LET d == Slice(data, index - 1, index + 2)
    IN  [i \in 1..Len(d) |-> <<Int2Num(index - 1 + (i - 1)), d[i]>>]

\* polynomial(d).equation comes from the regression library: any
\* coefficients [e0, e1, e2], here with e1 and e2 from a few values
PolynomialEquations ==
    {<<Int2Num(0), e1, e2>> : e1 \in {Int2Num(1), NaN}, e2 \in {Int2Num(-1), NaN}}

\* -e[1]/(2*e[2])
fitAroundIndex(e) == JDiv(JNeg(e[2]), JMul(Int2Num(2), e[3]))

\* var bestPeak = -9e9: below every sample of a correlation curve; -2e9
\* stands in for it (integers here have 32 bits)
lowestPeak == -2000000000

\* getFit up to the call of fitAroundIndex: the index it passes on
getFitBestIndex(zs, xcor, val, fitWindow) ==
    LET startIndex == binarySearch(zs, val)[1] - (fitWindow \div 2)
    IN  bestIndexLoop(xcor, startIndex, fitWindow, 0, Int2Num(lowestPeak), -1)

GFInit ==
    \E S \in SUBSET (0..MaxFitZ) : \E v \in (-1)..(MaxFitZ + 1) :
      \E x \in SeqsUpTo({Int2Num(0), Int2Num(1)}, MaxFitLen) : \E w \in 1..MaxFitWindow :
        gf = [GFIdle EXCEPT !.pc = "call", !.zs = SortedSeq(S), !.xcor = x,
                            !.val = v, !.fitWindow = w]

\* getFit(template, xcor, val): no branch returns early or throws; the
\* value returned is the redshift of the fitted non-integer index
GetFitCall ==
    /\ gf.pc = "call"
    /\ \E e \in PolynomialEquations :
          LET b == getFitBestIndex(gf.zs, gf.xcor, gf.val, gf.fitWindow)
          IN  gf' = [gf EXCEPT !.pc = "done", !.bestIndex = b, !.fitCalled = TRUE,
                               !.points = fitPoints(gf.xcor, b),
                               !.nonIntegerIndex = fitAroundIndex(e),
                               !.outcome = "returned"]
    /\ UNCHANGED <<bs, pk, sh, ae, bp, cr, na, nx, md, ip, mt, wf>>

\* ------------------------------------------------------ normaliseXCorr
findMean(data) == JDiv(SumFrom(data, 0, Int2Num(0)), Int2Num(Len(data)))

\* array.splice(start, count) for 0 <= start: the elements removed
Spliced(a, start, count) ==
    Slice(a, start, IF count < 0 THEN start ELSE start + count)

\* the array final after subtractMeanReject(final, trimAmount)
subtractMeanReject(final, trimAmount) ==
    LET num == JFloor(JDiv(JMul(trimAmount, Int2Num(Len(final))), Int2Num(2)))[1]
        sorted == Spliced(SortAsc(final), num, Len(final) - 2 * num)
        mean == findMean(sorted)
    IN  [k \in 1..Len(final) |-> JSub(final[k], mean)]

getRMS(data) ==
    LET n == Int2Num(Len(data))
        mean == JDiv(SumFrom(data, 0, Int2Num(0)), n)
        squared == JDiv(SumSqDev(data, mean, 0, Int2Num(0)), n)
    IN  JSqrt(squared)

\* the array final after rmsNormalisePeaks(final)
rmsNormalisePeaks(final) ==
    LET peaks == getPeaks(final, "undefined").value
        rms == getRMS(peaks)
    IN  [k \in 1..Len(final) |-> JDiv(final[k], rms)]

\* [final, result] after normaliseXCorr(final): the curve as left in place
\* and the list of {index, value} returned
normaliseXCorr(final, trimAmount) ==
    LET f == rmsNormalisePeaks(subtractMeanReject(final, trimAmount))
        peaks == getPeaks(f, "false")
    IN  [final |-> f,
         result |-> [i \in 1..Len(peaks.index) |->
                        [index |-> peaks.index[i], value |-> peaks.value[i]]]]

NXInit ==
    \E f \in SeqsUpTo({Int2Num(v) : v \in 0..MaxCorrVal}, MaxCorrLen) :
      \E t \in {<<0, 1>>, <<1, 2>>} :
        nx = [NXIdle EXCEPT !.pc = "call", !.final = f, !.trimAmount = t]

NormaliseXCorrCall ==
    /\ nx.pc = "call"
    /\ LET r == normaliseXCorr(nx.final, nx.trimAmount)
       IN  nx' = [nx EXCEPT !.pc = "done", !.xcor = r.final, !.peaks = r.result]
    /\ UNCHANGED <<bs, pk, sh, ae, bp, cr, na, gf, md, ip, mt, wf>>

\* final.slice(template.startZIndex, template.endZIndex)
pruneResults(final, startZIndex, endZIndex) == Slice(final, startZIndex, endZIndex)

\* matchTemplate(template, fft) from the output of fftNew.inverse() on
\* (sh.data, the transform library's result): circShift by final.length/2,
\* pruneResults to [startZIndex, endZIndex), normaliseXCorr
MatchTemplate ==
    /\ sh.pc = "call"
    /\ \E startZIndex \in 0..1 : \E endZIndex \in (Len(sh.data) - 1)..Len(sh.data) :
         \E t \in {<<0, 1>>, <<1, 2>>} :
          LET num == JDiv(Int2Num(Len(sh.data)), Int2Num(2))
              final == circShift(sh.data, num)
              r == normaliseXCorr(pruneResults(final, startZIndex, endZIndex), t)
          IN  sh' = [sh EXCEPT !.pc = "centred", !.num = num, !.out = final,
                               !.xcor = r.final, !.peaks = r.result]
    /\ UNCHANGED <<bs, pk, ae, bp, cr, na, gf, nx, md, ip, mt, wf>>

\* ---------------------------------------------------- normaliseMeanDev
absMean(data) ==
    JDiv(SumFrom([k \in 1..Len(data) |-> JAbs(data[k])], 0, Int2Num(0)),
         Int2Num(Len(data)))

\* data.map(Math.abs).sort(function(a,b){return b-a;})[0]
absMax(data) == At(SortDesc([k \in 1..Len(data) |-> JAbs(data[k])]), 0)

\* (clipValue + 0.01) * meanDeviation
clipBound(clipValue, meanDeviation) ==
    JMul(JAdd(Int2Num(clipValue), <<1, 100>>), meanDeviation)

\* the clipping loop over the array
clipTo(intensity, clipVal) ==
    [k \in 1..Len(intensity) |->
        IF JGt(intensity[k], clipVal) THEN clipVal
        ELSE IF JLt(intensity[k], JNeg(clipVal)) THEN JNeg(clipVal)
        ELSE intensity[k]]

MDInit ==
    \E a \in SeqsUpTo({Int2Num(-1), Int2Num(0), Int2Num(2)}, MaxDevLen) :
      \E c \in 0..MaxClipValue :
        md = [MDIdle EXCEPT !.pc = "loop", !.input = a, !.intensity = a, !.clipValue = c]

\* one pass of the while loop of normaliseMeanDev
NormaliseMeanDevPass ==
    /\ md.pc = "loop"
    /\ md.passes < MaxClipPasses
    /\ LET meanDeviation == absMean(md.intensity)
           clipVal == clipBound(md.clipValue, meanDeviation)
       IN  IF JGt(absMax(md.intensity), clipVal)
           THEN md' = [md EXCEPT !.meanDeviation = meanDeviation,
                                 !.intensity = clipTo(md.intensity, clipVal),
                                 !.passes = md.passes + 1]
           ELSE md' = [md EXCEPT !.meanDeviation = meanDeviation, !.pc = "divide"]
    /\ UNCHANGED <<bs, pk, sh, ae, bp, cr, na, gf, nx, ip, mt, wf>>

\* the final loop of normaliseMeanDev: intensity[i] /= meanDeviation
NormaliseMeanDevDivide ==
    /\ md.pc = "divide"
    /\ md' = [md EXCEPT !.pc = "done",
                        !.intensity = [k \in 1..Len(md.intensity) |->
                                          JDiv(md.intensity[k], md.meanDeviation)]]
    /\ UNCHANGED <<bs, pk, sh, ae, bp, cr, na, gf, nx, ip, mt, wf>>

\* --------------------------------------------------------- interpolate
JCeil(x) == JNeg(JFloor(JNeg(x)))

\* the for loop of findCorrespondingFloatIndex from index i on; falling off
\* the end of the loop returns undefined
RECURSIVE floatIndexLoop(_, _, _)
floatIndexLoop(xs, x, i) ==
    IF ~(i < Len(xs)) THEN Undefined
    ELSE IF JLt(At(xs, i), x) THEN floatIndexLoop(xs, x, i + 1)
    ELSE IF i = 0 THEN Int2Num(0)
    ELSE JAdd(Int2Num(i - 1),
              JDiv(JSub(x, At(xs, i - 1)), JSub(At(xs, i), At(xs, i - 1))))

\* a NaN start index makes the loop condition i < xs.length false at once
findCorrespondingFloatIndex(xs, x, optionalStartIndex) ==
    LET s == IF IsNullish(optionalStartIndex) THEN Int2Num(0) ELSE optionalStartIndex
    IN  IF s[2] # 1 THEN Undefined ELSE floatIndexLoop(xs, x, s[1])

\* the for loop of getAvgBetween from index i on: <<r, c>>
RECURSIVE avgLoop(_, _, _, _, _, _)
avgLoop(xvals, start, end, i, r, c) ==
    IF ~(i <= JCeil(end)[1]) THEN <<r, c>>
    ELSE LET weight ==
                 IF Int2Num(i) = JFloor(start)
                 THEN JSub(Int2Num(1), JSub(start, Int2Num(i)))
                 ELSE IF Int2Num(i) = JCeil(end)
                 THEN JSub(Int2Num(1), JSub(JCeil(end), end))
                 ELSE Int2Num(1)
         IN  avgLoop(xvals, start, end, i + 1,
                     JAdd(r, JMul(weight, At(xvals, i))), JAdd(c, weight))

\* Math.floor(start) or Math.ceil(end) NaN: the loop body never runs
getAvgBetween(xvals, start, end) ==
    LET rc == IF IsFinite(JFloor(start)) /\ IsFinite(JCeil(end))
              THEN avgLoop(xvals, start, end, JFloor(start)[1], Int2Num(0), Int2Num(0))
              ELSE <<Int2Num(0), Int2Num(0)>>
    IN  IF JEq(rc[2], Int2Num(0)) THEN Int2Num(0) ELSE JDiv(rc[1], rc[2])

\* the for loop of interpolate from index i on
RECURSIVE interpolateLoop(_, _, _, _, _, _)
interpolateLoop(xinterp, xvals, yvals, i, xval_end_index, result) ==
    IF ~(i < Len(xinterp)) THEN result
    ELSE LET two == Int2Num(2)
             start0 == IF i = 0 THEN Null
                       ELSE JDiv(JAdd(At(xinterp, i), At(xinterp, i - 1)), two)
             end0 == IF i = Len(xinterp) - 1 THEN Null
                     ELSE JDiv(JAdd(At(xinterp, i + 1), At(xinterp, i)), two)
             start_x == IF IsNullish(start0)
                        THEN JSub(JMul(two, At(xinterp, i)), end0) ELSE start0
             end_x == IF IsNullish(end0)
                      THEN JSub(JMul(two, At(xinterp, i)), start_x) ELSE end0
             xval_start_index ==
                 IF ~IsNullish(xval_end_index) THEN xval_end_index
                 ELSE findCorrespondingFloatIndex(xvals, start_x, Undefined)
             new_end == findCorrespondingFloatIndex(xvals, end_x,
                                                    JFloor(xval_start_index))
         IN  interpolateLoop(xinterp, xvals, yvals, i + 1, new_end,
                 Append(result, getAvgBetween(yvals, xval_start_index, new_end)))

\* the array returned, or NullArray for the logged null return
interpolate(xinterp, xvals, yvals) ==
    IF Len(xinterp) < 2 THEN NullArray
    ELSE interpolateLoop(xinterp, xvals, yvals, 0, Null, <<>>)

IPInit ==
    \E X \in (SUBSET (0..MaxWave)) \ {{}} :
      \E T \in SUBSET ((0 - MaxInterpPad)..(MaxWave + MaxInterpPad)) :
        \E y \in [1..Cardinality(X) -> {Int2Num(v) : v \in 1..MaxFlux}] :
          ip = [IPIdle EXCEPT !.pc = "call",
                              !.xinterp = [k \in 1..Cardinality(T) |-> Int2Num(SortedSeq(T)[k])],
                              !.xvals = [k \in 1..Cardinality(X) |-> Int2Num(SortedSeq(X)[k])],
                              !.yvals = y]

InterpolateCall ==
    /\ ip.pc = "call"
    /\ ip' = [ip EXCEPT !.pc = "done",
                        !.result = interpolate(ip.xinterp, ip.xvals, ip.yvals)]
    /\ UNCHANGED <<bs, pk, sh, ae, bp, cr, na, gf, nx, md, mt, wf>>

\* ------------------------------------------------------- matchTemplate
\* The transform primitive is an external collaborator.  A transform is
\* held here as the sample sequence it is the transform of, so that the
\* product of two transforms is the circular convolution of their sequences
\* and inverse() reads the sequence out; neither writes to its operands.
RECURSIVE convSum(_, _, _, _, _)
convSum(a, b, k, j, acc) ==
    IF j > Len(a) THEN acc
    ELSE convSum(a, b, k, j + 1, acc + a[j] * b[((k - j) % Len(a)) + 1])

fftMultiply(a, b) == [k \in 1..Len(a) |-> convSum(a, b, k, 1, 0)]

fftInverse(a) == [k \in 1..Len(a) |-> Int2Num(a[k])]

\* a variant of matchTemplate that keeps the product in the spectrum's
\* transform
matchTemplateInPlace(template, fft, trimAmount) ==
    LET shift(inv) == circShift(inv, JDiv(Int2Num(Len(inv)), Int2Num(2)))
        ret(fftNew, r) ==
            [template |-> template,
             fft |-> fftNew,
             result |-> [id |-> template.id, zs |-> template.zs,
                         xcor |-> r.final, peaks |-> r.result]]
    IN  CHOOSE m \in
          {ret(fftNew, r) :
             fftNew \in {fftMultiply(fft, template.fft)},
             r \in {normaliseXCorr(final, trimAmount) :
                      final \in {pruneResults(shifted, template.startZIndex,
                                              template.endZIndex) :
                                   shifted \in {shift(inv) :
                                     inv \in {fftInverse(fftMultiply(fft, template.fft))}}}}}
          : TRUE

\* matchTemplate(template, fft): the template and the transform as the call
\* leaves them, and the value returned.  Each array of the body (the
\* inverse, the shifted copy, the pruned copy, the normalised curve) is a
\* value bound once, as the local variables of the code are.
matchTemplate(template, fft, trimAmount) ==
    LET shift(inv) == circShift(inv, JDiv(Int2Num(Len(inv)), Int2Num(2)))
        ret(r) ==
            [template |-> template,
             fft |-> fft,
             result |-> [id |-> template.id, zs |-> template.zs,
                         xcor |-> r.final, peaks |-> r.result]]
    IN  CHOOSE m \in
          {ret(r) :
             r \in {normaliseXCorr(final, trimAmount) :
                      final \in {pruneResults(shifted, template.startZIndex,
                                              template.endZIndex) :
                                   shifted \in {shift(inv) :
                                     inv \in {fftInverse(fftMultiply(fft, template.fft))}}}}}
          : TRUE

NoResult == [id |-> 0, zs |-> <<>>, xcor |-> <<>>, peaks |-> <<>>]

\* a template of the template manager: ids are 1, 2, ...
Template(id, f, startZIndex) ==
    [id |-> id, fft |-> f, startZIndex |-> startZIndex, endZIndex |-> Len(f),
     zs |-> [k \in 1..(Len(f) - startZIndex) |-> startZIndex + k - 1]]

\* a spectrum long enough for its correlation curves to have peaks of
\* different heights
MatchExample == <<1, 1, 2, 0, 1, 1>>

\* the sample sequences of the templates for a spectrum of n samples: every
\* 0/1 sequence for a short spectrum, the unit impulses for a long one
TemplateShapes(n) ==
    IF n <= MaxMatchLen THEN [1..n -> 0..1]
    ELSE {[k \in 1..n |-> IF k = p THEN 1 ELSE 0] : p \in 1..n}

MTInit ==
    \E f \in (UNION {[1..n -> 0..1] : n \in 1..MaxMatchLen}) \cup {MatchExample} :
      \E f1, f2 \in TemplateShapes(Len(f)) : \E s1, s2 \in 0..1 :
        \E t \in {<<0, 1>>, <<1, 2>>} :
          LET ts == <<Template(1, f1, s1), Template(2, f2, s2)>>
          IN  mt = [pc |-> "matching", fft |-> f, templates |-> ts, trimAmount |-> t,
                    fft0 |-> f, templates0 |-> ts, results |-> <<NoResult, NoResult>>]

\* one call matchTemplate(templates[i], fft) of the caller's loop over the
\* templates, taken in any order
MatchTemplateCall ==
    /\ mt.pc = "matching"
    /\ \E i \in 1..Len(mt.templates) :
          /\ mt.results[i] = NoResult
          /\ \E m \in {matchTemplate(mt.templates[i], mt.fft, mt.trimAmount)} :
               LET res == [mt.results EXCEPT ![i] = m.result]
               IN  mt' = [mt EXCEPT !.templates[i] = m.template,
                                  !.fft = m.fft,
                                  !.results = res,
                                  !.pc = IF \A j \in 1..Len(res) : res[j] # NoResult
                                         THEN "done" ELSE "matching"]
    /\ UNCHANGED <<bs, pk, sh, ae, bp, cr, na, gf, nx, md, ip, wf>>

\* ------------------------------------ medianFilter, boxCarSmooth
\* sort(function(a,b){return a-b;}) on an array that may hold undefined:
\* Array.prototype.sort puts every undefined last without comparing it
sortWithUndefined(a) ==
    SortAsc(SelectSeq(a, LAMBDA v : v # Undefined))
        \o SelectSeq(a, LAMBDA v : v = Undefined)

\* the window after the first two loops of medianFilter / boxCarSmooth
windowStart(data, num) ==
    [i \in 1..(num + 2) |-> At(data, 0)]
        \o [i \in 1..(IF num > 1 THEN num - 1 ELSE 0) |-> At(data, i - 1)]

\* the sample pushed in pass i of the third loop
windowPush(data, num, i) ==
    IF i + num >= Len(data) THEN At(data, Len(data) - 1) ELSE At(data, i + num)

\* the third loop of medianFilter from pass i on
RECURSIVE medianFilterLoop(_, _, _, _, _)
medianFilterLoop(data, num, i, win, result) ==
    IF ~(i < Len(data)) THEN result
    ELSE LET w == Tail(Append(win, windowPush(data, num, i)))
         IN  medianFilterLoop(data, num, i + 1, w,
                              Append(result, At(sortWithUndefined(w), num)))

medianFilter(data, window) ==
    LET num == (window - 1) \div 2
    IN  medianFilterLoop(data, num, 0, windowStart(data, num), <<>>)

\* the third loop of boxCarSmooth from pass i on
RECURSIVE boxCarSmoothLoop(_, _, _, _, _, _)
boxCarSmoothLoop(data, window, i, win, running, result) ==
    IF ~(i < Len(data)) THEN result
    ELSE LET num == (window - 1) \div 2
             pushed == Append(win, windowPush(data, num, i))
             r == JSub(JAdd(running, pushed[Len(pushed)]), Head(pushed))
         IN  boxCarSmoothLoop(data, window, i + 1, Tail(pushed), r,
                              Append(result, JDiv(r, Int2Num(window))))

boxCarSmooth(data, window) ==
    LET num == (window - 1) \div 2
        win == windowStart(data, num)
    IN  boxCarSmoothLoop(data, window, 0, win, SumFrom(win, 0, Int2Num(0)), <<>>)

\* the indices of data that medianFilter / boxCarSmooth read
windowReads(data, window) ==
    LET num == (window - 1) \div 2
    IN  {0} \cup {i \in 0..(num - 2) : TRUE}
            \cup {IF i + num >= Len(data) THEN Len(data) - 1 ELSE i + num :
                    i \in 0..(Len(data) - 1)}

\* --------------------------------------------------------- cosineTaper
\* a JS array with the properties written under negative names
JSArray(a) == [a |-> a, neg |-> <<>>]

GetAt(o, i) ==
    IF i < 0 THEN (IF -i \in DOMAIN o.neg THEN o.neg[-i] ELSE Undefined)
    ELSE At(o.a, i)

\* intensity[i] = v: an index at or beyond the length grows the array,
\* a negative one sets a property and leaves the elements alone
SetAt(o, i, v) ==
    IF i < 0
    THEN [o EXCEPT !.neg = [k \in 1..(IF -i > Len(o.neg) THEN -i ELSE Len(o.neg)) |->
                              IF k = -i THEN v
                              ELSE IF k \in DOMAIN o.neg THEN o.neg[k] ELSE Undefined]]
    ELSE [o EXCEPT !.a = [k \in 1..(IF i + 1 > Len(o.a) THEN i + 1 ELSE Len(o.a)) |->
                            IF k = i + 1 THEN v
                            ELSE IF k <= Len(o.a) THEN o.a[k] ELSE Undefined]]

\* Math.sin(i * 0.5 * Math.PI / taperWidth) for 0 <= i <= taperWidth, by
\* Bhaskara's formula 16x(pi - x)/(5 pi^2 - 4x(pi - x)): exact at 0 and at
\* pi/2, within 0.002 between
sinQuarter(i, taperWidth) ==
    Norm(4 * i * (2 * taperWidth - i),
         5 * taperWidth * taperWidth - i * (2 * taperWidth - i))

\* the first loop of cosineTaper from pass i on
RECURSIVE zeroLoop(_, _, _)
zeroLoop(o, zeroPixelWidth, i) ==
    IF ~(i < zeroPixelWidth) THEN o
    ELSE LET inverse == Len(o.a) - 1 - i
         IN  zeroLoop(SetAt(SetAt(o, i, Int2Num(0)), inverse, Int2Num(0)),
                      zeroPixelWidth, i + 1)

\* the second loop of cosineTaper from pass i on
RECURSIVE taperLoop(_, _, _, _)
taperLoop(o, zeroPixelWidth, taperWidth, i) ==
    IF ~(i < taperWidth) THEN o
    ELSE LET inverse == Len(o.a) - 1 - i
             sin == sinQuarter(i, taperWidth)
             o1 == SetAt(o, i + zeroPixelWidth,
                         JMul(GetAt(o, i + zeroPixelWidth), sin))
             o2 == SetAt(o1, inverse - zeroPixelWidth,
                         JMul(GetAt(o1, inverse - zeroPixelWidth), sin))
         IN  taperLoop(o2, zeroPixelWidth, taperWidth, i + 1)

\* the array intensity after cosineTaper(intensity, zeroPixelWidth, taperWidth)
cosineTaper(intensity, zeroPixelWidth, taperWidth) ==
    taperLoop(zeroLoop(JSArray(intensity), zeroPixelWidth, 0),
              zeroPixelWidth, taperWidth, 0)

\* the indices of intensity that cosineTaper reads or writes when the array
\* has n elements throughout
taperTouches(n, zeroPixelWidth, taperWidth) ==
    UNION {{i, n - 1 - i} : i \in 0..(zeroPixelWidth - 1)}
        \cup UNION {{i + zeroPixelWidth, n - 1 - i - zeroPixelWidth} :
                      i \in 0..(taperWidth - 1)}

WTInit ==
    \E d \in SeqsUpTo({Int2Num(v) : v \in 0..MaxWinVal}, MaxWinLen) \ {<<>>} :
      \/ \E num \in 0..MaxWinNum :
            wf = [WTIdle EXCEPT !.pc = "window", !.data = d, !.window = 2 * num + 1]
      \/ \E z, t \in 0..MaxTaper :
            wf = [WTIdle EXCEPT !.pc = "taper", !.data = d, !.zeroPixelWidth = z,
                                !.taperWidth = t]

MedianFilterCall ==
    /\ wf.pc = "window"
    /\ wf' = [wf EXCEPT !.pc = "medianFilter",
                        !.out = medianFilter(wf.data, wf.window),
                        !.outside = {i \in windowReads(wf.data, wf.window) :
                                        i < 0 \/ i >= Len(wf.data)}]
    /\ UNCHANGED <<bs, pk, sh, ae, bp, cr, na, gf, nx, md, ip, mt>>

BoxCarSmoothCall ==
    /\ wf.pc = "window"
    /\ wf' = [wf EXCEPT !.pc = "boxCarSmooth",
                        !.out = boxCarSmooth(wf.data, wf.window),
                        !.outside = {i \in windowReads(wf.data, wf.window) :
                                        i < 0 \/ i >= Len(wf.data)}]
    /\ UNCHANGED <<bs, pk, sh, ae, bp, cr, na, gf, nx, md, ip, mt>>

CosineTaperCall ==
    /\ wf.pc = "taper"
    /\ \E o \in {cosineTaper(wf.data, wf.zeroPixelWidth, wf.taperWidth)} :
         wf' = [wf EXCEPT !.pc = "cosineTaper",
                          !.out = o.a,
                          !.outside = {i \in taperTouches(Len(wf.data), wf.zeroPixelWidth,
                                                          wf.taperWidth) :
                                          i < 0 \/ i >= Len(wf.data)}]
    /\ UNCHANGED <<bs, pk, sh, ae, bp, cr, na, gf, nx, md, ip, mt>>

\* ---------------------------------------------------- specifications
InitWT ==
    /\ WTInit
    /\ bs = BSIdle /\ pk = PKIdle /\ sh = SHIdle /\ ae = AEIdle /\ bp = BPIdle
    /\ cr = CRIdle /\ na = NAIdle /\ gf = GFIdle /\ nx = NXIdle /\ md = MDIdle
    /\ ip = IPIdle /\ mt = MTIdle

NextWT == MedianFilterCall \/ BoxCarSmoothCall \/ CosineTaperCall

SpecWT == InitWT /\ [][NextWT]_vars

\* ---------------------------------------------------- specifications
InitMT ==
    /\ MTInit
    /\ bs = BSIdle /\ pk = PKIdle /\ sh = SHIdle /\ ae = AEIdle /\ bp = BPIdle
    /\ cr = CRIdle /\ na = NAIdle /\ gf = GFIdle /\ nx = NXIdle /\ md = MDIdle /\ wf = WTIdle
    /\ ip = IPIdle

NextMT == MatchTemplateCall

SpecMT == InitMT /\ [][NextMT]_vars

\* ---------------------------------------------------- specifications
InitIP ==
    /\ IPInit
    /\ bs = BSIdle /\ pk = PKIdle /\ sh = SHIdle /\ ae = AEIdle /\ bp = BPIdle
    /\ cr = CRIdle /\ na = NAIdle /\ gf = GFIdle /\ nx = NXIdle /\ md = MDIdle /\ mt = MTIdle /\ wf = WTIdle

NextIP == InterpolateCall

SpecIP == InitIP /\ [][NextIP]_vars

\* ---------------------------------------------------- specifications
InitNX ==
    /\ (NXInit /\ md = MDIdle) \/ (MDInit /\ nx = NXIdle)
    /\ bs = BSIdle /\ pk = PKIdle /\ sh = SHIdle /\ ae = AEIdle /\ bp = BPIdle
    /\ cr = CRIdle /\ na = NAIdle /\ gf = GFIdle /\ ip = IPIdle /\ mt = MTIdle /\ wf = WTIdle

NextNX == NormaliseXCorrCall \/ NormaliseMeanDevPass \/ NormaliseMeanDevDivide

SpecNX == InitNX /\ [][NextNX]_vars

InitGF == GFInit /\ bs = BSIdle /\ pk = PKIdle /\ sh = SHIdle /\ ae = AEIdle /\ bp = BPIdle /\ cr = CRIdle /\ na = NAIdle /\ nx = NXIdle /\ md = MDIdle /\ ip = IPIdle /\ mt = MTIdle /\ wf = WTIdle

NextGF == GetFitCall

SpecGF == InitGF /\ [][NextGF]_vars

InitNA == NAInit /\ bs = BSIdle /\ pk = PKIdle /\ sh = SHIdle /\ ae = AEIdle /\ bp = BPIdle /\ cr = CRIdle /\ gf = GFIdle /\ nx = NXIdle /\ md = MDIdle /\ ip = IPIdle /\ mt = MTIdle /\ wf = WTIdle

NextNA == NormaliseViaAreaCall

SpecNA == InitNA /\ [][NextNA]_vars

InitCR == CRInit /\ bs = BSIdle /\ pk = PKIdle /\ sh = SHIdle /\ ae = AEIdle /\ bp = BPIdle /\ na = NAIdle /\ gf = GFIdle /\ nx = NXIdle /\ md = MDIdle /\ ip = IPIdle /\ mt = MTIdle /\ wf = WTIdle

NextCR == RemoveCosmicRayCall

SpecCR == InitCR /\ [][NextCR]_vars

InitBP == BPInit /\ bs = BSIdle /\ pk = PKIdle /\ sh = SHIdle /\ ae = AEIdle /\ cr = CRIdle /\ na = NAIdle /\ gf = GFIdle /\ nx = NXIdle /\ md = MDIdle /\ ip = IPIdle /\ mt = MTIdle /\ wf = WTIdle

NextBP == RemoveBadPixelsCall

SpecBP == InitBP /\ [][NextBP]_vars

InitAE == AEInit /\ bs = BSIdle /\ pk = PKIdle /\ sh = SHIdle /\ bp = BPIdle /\ cr = CRIdle /\ na = NAIdle /\ gf = GFIdle /\ nx = NXIdle /\ md = MDIdle /\ ip = IPIdle /\ mt = MTIdle /\ wf = WTIdle

NextAE == AdjustErrorCall

SpecAE == InitAE /\ [][NextAE]_vars

InitSH == SHInit /\ bs = BSIdle /\ pk = PKIdle /\ ae = AEIdle /\ bp = BPIdle /\ cr = CRIdle /\ na = NAIdle /\ gf = GFIdle /\ nx = NXIdle /\ md = MDIdle /\ ip = IPIdle /\ mt = MTIdle /\ wf = WTIdle

NextSH == CircShiftCall \/ MatchTemplate

SpecSH == InitSH /\ [][NextSH]_vars

InitPK == PKInit /\ bs = BSIdle /\ sh = SHIdle /\ ae = AEIdle /\ bp = BPIdle /\ cr = CRIdle /\ na = NAIdle /\ gf = GFIdle /\ nx = NXIdle /\ md = MDIdle /\ ip = IPIdle /\ mt = MTIdle /\ wf = WTIdle

NextPK == GetPeaksCall

SpecPK == InitPK /\ [][NextPK]_vars

InitBS == BSInit /\ pk = PKIdle /\ sh = SHIdle /\ ae = AEIdle /\ bp = BPIdle /\ cr = CRIdle /\ na = NAIdle /\ gf = GFIdle /\ nx = NXIdle /\ md = MDIdle /\ ip = IPIdle /\ mt = MTIdle /\ wf = WTIdle

NextBS == BinarySearchCall

SpecBS == InitBS /\ [][NextBS]_vars

\* ------------------------------------------------------------ claims
\* C1: on a strictly increasing array an exact hit at index i returns (i, i)
\* and a value strictly between data[i] and data[i+1] returns (i, i+1).
BinarySearchBrackets ==
    (bs.pc = "done" /\ StrictlyIncreasing(bs.data)) =>
        /\ \A i \in 0..(Len(bs.data) - 1) :
              bs.data[i + 1] = bs.val => bs.ret = <<i, i>>
        /\ \A i \in 0..(Len(bs.data) - 2) :
              (bs.data[i + 1] < bs.val /\ bs.val < bs.data[i + 2])
                  => bs.ret = <<i, i + 1>>

\* binarySearch([1,3,5], 4) has returned the bracket (1, 2)
BinarySearchBracketsWitness ==
    /\ bs.pc = "done"
    /\ bs.data = <<1, 3, 5>>
    /\ bs.val = 4
    /\ bs.ret = <<1, 2>>

\* C2: a value outside the range of a strictly increasing array of length
\* n >= 2 returns (0, 0) below the range and (n-1, n-1) above it.
BinarySearchOutOfRange ==
    (bs.pc = "done" /\ Len(bs.data) >= 2 /\ StrictlyIncreasing(bs.data)) =>
        /\ (bs.val < bs.data[1]) => bs.ret = <<0, 0>>
        /\ (bs.val > bs.data[Len(bs.data)]) =>
              bs.ret = <<Len(bs.data) - 1, Len(bs.data) - 1>>

\* the integer value of the sample at JS index i (samples here are integers)
PeakVal(i) == pk.final[i + 1][1]

MaxCondition(i) ==
    /\ PeakVal(i) >= PeakVal(i + 1) /\ PeakVal(i) >= PeakVal(i + 2)
    /\ PeakVal(i) > PeakVal(i - 1) /\ PeakVal(i) > PeakVal(i - 2)

MinCondition(i) ==
    /\ PeakVal(i) =< PeakVal(i + 1) /\ PeakVal(i) =< PeakVal(i + 2)
    /\ PeakVal(i) < PeakVal(i - 1) /\ PeakVal(i) < PeakVal(i - 2)

\* C3: getPeaks(final, false) returns in increasing order exactly the indices
\* 2 <= i <= length-3 meeting the 5-point maximum condition, each with its
\* value; with the flag true or left out it adds exactly the indices meeting
\* the mirrored minimum condition; on [0,0,1,3,1,0,3,1,0,0] the maxima are
\* index 3 and index 6, both of value 3.
GetPeaksExact ==
    pk.pc = "done" =>
        LET n == Len(pk.final)
            is == pk.ret.index
            want == {i \in 2..(n - 3) :
                        MaxCondition(i) \/ (pk.both # "false" /\ MinCondition(i))}
        IN  /\ \A k \in 1..(Len(is) - 1) : is[k] < is[k + 1]
            /\ {is[k] : k \in 1..Len(is)} = want
            /\ Len(pk.ret.value) = Len(is)
            /\ \A k \in 1..Len(is) : pk.ret.value[k] = pk.final[is[k] + 1]
            /\ (pk.final = PeakExample /\ pk.both = "false") =>
                  (is = <<3, 6>> /\ pk.ret.value = <<Int2Num(3), Int2Num(3)>>)

\* a plateau maximum and a minimum have both been reported by the default call
GetPeaksExactWitness ==
    /\ pk.pc = "done"
    /\ pk.both = "undefined"
    /\ pk.final = <<Int2Num(0), Int2Num(0), Int2Num(1), Int2Num(1), Int2Num(0), Int2Num(0)>>
    /\ pk.ret.index = <<2>>

\* the maxima of the example array have been reported
GetPeaksExampleWitness ==
    /\ pk.pc = "done" /\ pk.both = "false" /\ pk.final = PeakExample
    /\ pk.ret.index = <<3, 6>>

\* the number of positions of array a holding v
CountOf(a, v) == Cardinality({k \in 1..Len(a) : a[k] = v})

\* out is data rotated by num (a whole number): same length, out[i] is the
\* old data[(i + num) mod l], and out is a permutation of data
Rotated(data, out, num) ==
    /\ Len(out) = Len(data)
    /\ \A i \in 0..(Len(data) - 1) : out[i + 1] = data[((i + num) % Len(data)) + 1]
    /\ \A v \in {data[k] : k \in 1..Len(data)} \cup {out[k] : k \in 1..Len(out)} :
          CountOf(out, v) = CountOf(data, v)

\* C4: circShift rotates in place by the shift it is given, keeping length
\* and content; in particular for matchTemplate's call with num = l/2, for
\* every length l, where the old sample 0 ends at the centre index.
CircShiftRotates ==
    /\ sh.pc = "shifted" => Rotated(sh.data, sh.out, sh.num[1])
    /\ sh.pc = "centred" =>
          LET l == Len(sh.data)
          IN  /\ \E h \in 0..l : Rotated(sh.data, sh.out, h)
              /\ sh.out[(l \div 2) + 1] = sh.data[1]

\* the part of C4 that the code meets: whole shifts, and l/2 for even l
CircShiftRotatesWholeShifts ==
    /\ sh.pc = "shifted" => Rotated(sh.data, sh.out, sh.num[1])
    /\ (sh.pc = "centred" /\ Len(sh.data) % 2 = 0) =>
          LET l == Len(sh.data)
          IN  /\ Rotated(sh.data, sh.out, l \div 2)
              /\ sh.out[(l \div 2) + 1] = sh.data[1]

\* C5: adjustError never lowers a variance, and leaves the entries at or
\* above max_error as they are.
AdjustErrorNeverLowers ==
    ae.pc = "done" =>
        /\ Len(ae.out) = Len(ae.variance)
        /\ \A k \in 1..Len(ae.variance) :
              /\ JGe(ae.out[k], ae.variance[k])
              /\ JGe(ae.variance[k], Int2Num(max_error)) => ae.out[k] = ae.variance[k]

\* what the code keeps of C5: the length, and the entries at or above max_error
AdjustErrorKeepsSentinels ==
    ae.pc = "done" =>
        /\ Len(ae.out) = Len(ae.variance)
        /\ \A k \in 1..Len(ae.variance) :
              JGe(ae.variance[k], Int2Num(max_error)) => ae.out[k] = ae.variance[k]

\* index k (from 1) of the input of removeBadPixels is bad
InputBad(k) ==
    \/ bp.intensity[k] = NaN
    \/ bp.intensity[k][1] > maxVal * bp.intensity[k][2]
    \/ bp.intensity[k][1] < minVal * bp.intensity[k][2]
    \/ bp.variance[k][1] < 0

\* the input's non-bad indices within numPoints of k
GoodNear(k) ==
    {j \in 1..Len(bp.intensity) :
        j >= k - bp.numPoints /\ j <= k + bp.numPoints /\ ~InputBad(j)}

\* the sum of the whole numbers a[j][1], j in S
RECURSIVE SumOver(_, _)
SumOver(a, S) ==
    IF S = {} THEN 0
    ELSE LET j == CHOOSE x \in S : TRUE IN a[j][1] + SumOver(a, S \ {j})

\* C6: a non-bad index keeps intensity and variance; a bad index gets the
\* means of the intensities and variances of the input's non-bad samples
\* within numPoints of it, and 0 and 0 when there is none.
RemoveBadPixelsMeans ==
    bp.pc = "done" =>
        \A k \in 1..Len(bp.intensity) :
            IF ~InputBad(k)
            THEN bp.outIntensity[k] = bp.intensity[k] /\ bp.outVariance[k] = bp.variance[k]
            ELSE IF GoodNear(k) = {}
            THEN bp.outIntensity[k] = Int2Num(0) /\ bp.outVariance[k] = Int2Num(0)
            ELSE /\ bp.outIntensity[k] =
                        Norm(SumOver(bp.intensity, GoodNear(k)), Cardinality(GoodNear(k)))
                 /\ bp.outVariance[k] =
                        Norm(SumOver(bp.variance, GoodNear(k)), Cardinality(GoodNear(k)))

\* what the code keeps of C6: non-bad indices are untouched, and a bad index
\* with no other bad index within numPoints of it gets the means of its
\* neighbours (0 and 0 when it has none)
RemoveBadPixelsIsolated ==
    bp.pc = "done" =>
        \A k \in 1..Len(bp.intensity) :
            IF ~InputBad(k)
            THEN bp.outIntensity[k] = bp.intensity[k] /\ bp.outVariance[k] = bp.variance[k]
            ELSE (\A j \in 1..Len(bp.intensity) :
                     (j # k /\ j >= k - bp.numPoints /\ j <= k + bp.numPoints)
                         => ~InputBad(j))
                 => IF GoodNear(k) = {}
                    THEN bp.outIntensity[k] = Int2Num(0) /\ bp.outVariance[k] = Int2Num(0)
                    ELSE /\ bp.outIntensity[k] =
                               Norm(SumOver(bp.intensity, GoodNear(k)), Cardinality(GoodNear(k)))
                         /\ bp.outVariance[k] =
                               Norm(SumOver(bp.variance, GoodNear(k)), Cardinality(GoodNear(k)))

\* the outlier is gone: index k holds the constant and the max_error
\* variance, every other sample and variance is as before
OutlierRemoved ==
    /\ Len(cr.outIntensity) = Len(cr.intensity)
    /\ Len(cr.outVariance) = Len(cr.variance)
    /\ cr.outIntensity[cr.k + 1] = cr.constant
    /\ cr.outVariance[cr.k + 1] = Int2Num(max_error)
    /\ \A j \in 1..Len(cr.intensity) :
          j # cr.k + 1 =>
              cr.outIntensity[j] = cr.intensity[j] /\ cr.outVariance[j] = cr.variance[j]

\* C7: on an array constant but for one extreme outlier at k, for every
\* number of passes >= 1, removeCosmicRay removes the outlier, sets
\* variance[k] to max_error and changes nothing else.
CosmicRayRemovesOutlier ==
    cr.pc = "done" => OutlierRemoved

\* C7 as amended: the same, provided the array is long enough for a single
\* outlier to reach deviationFactor RMS: length - 1 > deviationFactor^2
\* (with deviationFactor >= 1 and pointCheck >= 1)
CosmicRayRemovesOutlierInLongArray ==
    (/\ cr.pc = "done"
     /\ cr.deviationFactor >= 1 /\ cr.pointCheck >= 1
     /\ Len(cr.intensity) - 1 > cr.deviationFactor * cr.deviationFactor)
        => OutlierRemoved

\* two passes over a long enough array have removed an outlier
CosmicRayWitness ==
    /\ cr.pc = "done"
    /\ cr.cosmicIterations = 2
    /\ cr.deviationFactor = 2
    /\ Len(cr.intensity) = 6
    /\ cr.k = 0
    /\ OutlierRemoved

\* the sum of the absolute values of the whole numbers of array a
RECURSIVE AbsSumInt(_)
AbsSumInt(a) ==
    IF a = <<>> THEN 0
    ELSE (IF Head(a)[1] < 0 THEN -Head(a)[1] ELSE Head(a)[1]) + AbsSumInt(Tail(a))

\* the sum of the absolute values of the rationals of array a, as n/d
RECURSIVE AbsSumRat(_)
AbsSumRat(a) ==
    IF a = <<>> THEN <<0, 1>>
    ELSE LET t == AbsSumRat(Tail(a))
             h == Head(a)
         IN  Norm((IF h[1] < 0 THEN -h[1] ELSE h[1]) * t[2] + t[1] * h[2], h[2] * t[2])

\* the target area of the call
TargetArea == IF na.val = Null THEN <<normalised_area, 1>> ELSE na.val

\* C8: with a non-zero sum of absolute values, normaliseViaArea leaves the
\* sum of absolute values equal to the target area (val >= 0, or
\* normalised_area for null) and has multiplied every intensity and every
\* variance by the returned ratio r; with a zero sum it changes nothing.
NormaliseViaAreaScales ==
    na.pc = "done" =>
        IF AbsSumInt(na.array) # 0
        THEN /\ na.ret = Norm(TargetArea[1], TargetArea[2] * AbsSumInt(na.array))
             /\ Len(na.outArray) = Len(na.array)
             /\ AbsSumRat(na.outArray) = TargetArea
             /\ \A j \in 1..Len(na.array) :
                   na.outArray[j] = Norm(na.array[j][1] * na.ret[1], na.ret[2])
             /\ IF na.variance = NullArray THEN na.outVariance = NullArray
                ELSE \A j \in 1..Len(na.array) :
                       na.outVariance[j] = Norm(na.variance[j][1] * na.ret[1], na.ret[2])
        ELSE /\ na.outArray = na.array
             /\ na.outVariance = na.variance
             /\ na.ret = Undefined

\* [1, -2, 3] with variances has been scaled to the default area 100000
NormaliseViaAreaWitness ==
    /\ na.pc = "done"
    /\ na.array = <<Int2Num(1), Int2Num(-2), Int2Num(3)>>
    /\ na.variance # NullArray
    /\ na.val = Null
    /\ na.ret = <<50000, 3>>
    /\ na.outArray[2] = <<-100000, 3>>

\* no index of getFit's search window is a valid index of xcor
NoIndexInWindow ==
    LET startIndex == binarySearch(gf.zs, gf.val)[1] - (gf.fitWindow \div 2)
    IN  \A i \in 0..(gf.fitWindow - 1) :
          ~(startIndex + i >= 0 /\ startIndex + i < Len(gf.xcor))

\* C9: when no index of the search window is a valid index of xcor, getFit
\* signals a no-match error, returns no redshift and does not hand the
\* 'not found' index to the parabola fit.
GetFitSignalsNoMatch ==
    (gf.pc = "done" /\ NoIndexInWindow) =>
        (gf.outcome = "NoMatchError" /\ ~gf.fitCalled)

\* what the code does there: it fits around index -1 and returns
GetFitFitsAroundMinusOne ==
    (gf.pc = "done" /\ NoIndexInWindow) =>
        (gf.outcome = "returned" /\ gf.fitCalled /\ gf.bestIndex = -1)

\* every sample of array a is a finite number
AllFinite(a) == \A k \in 1..Len(a) : a[k][2] > 0

\* the curve given to normaliseXCorr has no local extrema, or extrema of one
\* value only, once its trimmed mean is subtracted
NoPeakSpread ==
    LET v == getPeaks(subtractMeanReject(nx.final, nx.trimAmount), "undefined").value
    IN  \A i, j \in 1..Len(v) : v[i] = v[j]

\* C10: a correlation curve whose peaks have no spread (none, or all of one
\* value) is left finite by normaliseXCorr, and normaliseMeanDev leaves an
\* all-zero array as it is.
DegenerateNormalisationIsNoOp ==
    /\ (nx.pc = "done" /\ NoPeakSpread) => AllFinite(nx.xcor)
    /\ (md.pc = "done" /\ \A k \in 1..Len(md.input) : md.input[k] = Int2Num(0))
          => md.intensity = md.input

\* the first half of C10 alone
DegenerateXCorrStaysFinite ==
    (nx.pc = "done" /\ NoPeakSpread) => AllFinite(nx.xcor)

\* the second half of C10 alone
ZeroArrayStaysZero ==
    (md.pc = "done" /\ \A k \in 1..Len(md.input) : md.input[k] = Int2Num(0))
        => md.intensity = md.input

\* what the code does in the first case: every sample ends NaN or infinite
DegenerateXCorrEndsNonFinite ==
    (nx.pc = "done" /\ NoPeakSpread) => \A k \in 1..Len(nx.xcor) : nx.xcor[k][2] = 0

\* C11: resampling onto the source's own grid (length >= 2) returns the
\* source values at every index, first and last included.
InterpolateIdentity ==
    (ip.pc = "done" /\ Len(ip.xvals) >= 2 /\ ip.xinterp = ip.xvals)
        => ip.result = ip.yvals

\* what the code returns on the source's own grid: a (1/2, 1, 1/2)-weighted
\* mean of each sample with its neighbours, and 0 at the last index
InterpolateOwnGridSmooths ==
    (ip.pc = "done" /\ Len(ip.xvals) >= 2 /\ ip.xinterp = ip.xvals) =>
        LET n == Len(ip.yvals)
            y == ip.yvals
            half == <<1, 2>>
        IN  /\ Len(ip.result) = n
            /\ ip.result[n] = Int2Num(0)
            /\ ip.result[1] = JDiv(JAdd(y[1], JMul(half, y[2])), <<3, 2>>)
            /\ \A k \in 2..(n - 1) :
                   ip.result[k] = JDiv(JAdd(JAdd(JMul(half, y[k - 1]), y[k]),
                                            JMul(half, y[k + 1])), Int2Num(2))

\* the bin of target point k (1-based) of xinterp: midpoint to midpoint, the
\* edge bins mirrored about their grid point
BinStart(k) ==
    LET x == ip.xinterp
    IN  IF k > 1 THEN JDiv(JAdd(x[k], x[k - 1]), Int2Num(2))
        ELSE JSub(JMul(Int2Num(2), x[1]), JDiv(JAdd(x[2], x[1]), Int2Num(2)))

BinEnd(k) ==
    LET x == ip.xinterp
    IN  IF k < Len(x) THEN JDiv(JAdd(x[k + 1], x[k]), Int2Num(2))
        ELSE JSub(JMul(Int2Num(2), x[k]), BinStart(k))

BinBelow(k) == JLt(BinEnd(k), ip.xvals[1])

BinAbove(k) == JGt(BinStart(k), ip.xvals[Len(ip.xvals)])

\* C12: a target point whose bin lies wholly below the source's coverage gets
\* the first source sample, one whose bin lies wholly above it gets the last
\* source sample.
InterpolateEdgePolicy ==
    (ip.pc = "done" /\ Len(ip.xinterp) >= 2) =>
        \A k \in 1..Len(ip.xinterp) :
            /\ BinBelow(k) => ip.result[k] = ip.yvals[1]
            /\ BinAbove(k) => ip.result[k] = ip.yvals[Len(ip.yvals)]

\* the lower half of the edge policy
InterpolateBelowCoverage ==
    (ip.pc = "done" /\ Len(ip.xinterp) >= 2) =>
        \A k \in 1..Len(ip.xinterp) : BinBelow(k) => ip.result[k] = ip.yvals[1]

\* what the code returns above the coverage: 0 for every such bin
InterpolateAboveCoverageIsZero ==
    (ip.pc = "done" /\ Len(ip.xinterp) >= 2) =>
        \A k \in 1..Len(ip.xinterp) : BinAbove(k) => ip.result[k] = Int2Num(0)

WindowedTransformsTolerateShort ==
    wf.pc \in {"medianFilter", "boxCarSmooth", "cosineTaper"} =>
        /\ wf.outside = {}
        /\ Len(wf.out) = Len(wf.data)
        /\ AllFinite(wf.out)

\* the same for an array at least as long as the widths ask for
WindowedTransformsOnLongArrays ==
    /\ (wf.pc \in {"medianFilter", "boxCarSmooth"} /\ Len(wf.data) >= wf.window) =>
          /\ wf.outside = {} /\ Len(wf.out) = Len(wf.data) /\ AllFinite(wf.out)
    /\ (wf.pc = "cosineTaper" /\ Len(wf.data) >= wf.zeroPixelWidth + wf.taperWidth) =>
          /\ wf.outside = {} /\ Len(wf.out) = Len(wf.data) /\ AllFinite(wf.out)

\* medianFilter alone never returns an undefined or NaN sample
MedianFilterStaysFinite ==
    wf.pc = "medianFilter" => Len(wf.out) = Len(wf.data) /\ AllFinite(wf.out)

\* boxCarSmooth alone on a short array
BoxCarSmoothStaysFinite ==
    wf.pc = "boxCarSmooth" => AllFinite(wf.out)

\* medianFilter alone reads inside the array only
MedianFilterReadsInside ==
    wf.pc = "medianFilter" => wf.outside = {}

\* the window data[i - num .. i + num] around JS index i, positions before
\* the array filled with the first sample and positions after it with the last
PaddedWindow(data, i, num) ==
    [k \in 1..(2 * num + 1) |->
        LET j == i - num + k - 1
        IN  IF j < 0 THEN data[1]
            ELSE IF j >= Len(data) THEN data[Len(data)] ELSE data[j + 1]]

WindowMedian(data, i, num) == SortAsc(PaddedWindow(data, i, num))[num + 1]

WindowMean(data, i, num) ==
    JDiv(SumFrom(PaddedWindow(data, i, num), 0, Int2Num(0)), Int2Num(2 * num + 1))

\* C15: on an array at least as long as the odd window 2*num+1, medianFilter
\* returns at every index the median, and boxCarSmooth the mean, of the
\* window of num samples to each side, the edges padded with the first and
\* the last sample.
WindowFiltersUsePaddedWindow ==
    LET num == (wf.window - 1) \div 2
    IN  /\ (wf.pc = "medianFilter" /\ Len(wf.data) >= wf.window) =>
              wf.out = [k \in 1..Len(wf.data) |-> WindowMedian(wf.data, k - 1, num)]
        /\ (wf.pc = "boxCarSmooth" /\ Len(wf.data) >= wf.window) =>
              wf.out = [k \in 1..Len(wf.data) |-> WindowMean(wf.data, k - 1, num)]

\* the same for the window of three samples only
WindowFiltersOfThree ==
    /\ (wf.pc = "medianFilter" /\ wf.window = 3 /\ Len(wf.data) >= 3) =>
          wf.out = [k \in 1..Len(wf.data) |-> WindowMedian(wf.data, k - 1, 1)]
    /\ (wf.pc = "boxCarSmooth" /\ wf.window = 3 /\ Len(wf.data) >= 3) =>
          wf.out = [k \in 1..Len(wf.data) |-> WindowMean(wf.data, k - 1, 1)]

\* the valid indices of xcor inside getFit's search window
FitWindowIndices ==
    LET startIndex == binarySearch(gf.zs, gf.val)[1] - (gf.fitWindow \div 2)
    IN  {j \in 0..(Len(gf.xcor) - 1) : j >= startIndex /\ j < startIndex + gf.fitWindow}

\* m is the lowest index of the window at which xcor is largest
LowestMaximum(m) ==
    /\ m \in FitWindowIndices
    /\ \A j \in FitWindowIndices :
          /\ JLe(At(gf.xcor, j), At(gf.xcor, m))
          /\ j < m => JLt(At(gf.xcor, j), At(gf.xcor, m))

ThreeSamplesAround(m) ==
    [k \in 1..3 |-> <<Int2Num(m - 2 + k), At(gf.xcor, m - 2 + k)>>]

FitCase == gf.pc = "done" /\ Len(gf.xcor) = Len(gf.zs) /\ Len(gf.xcor) >= 3

\* C16: for a curve as long as the redshift grid (three samples or more)
\* getFit picks the lowest index m of the largest sample in its window and
\* hands the fit the three points at m-1, m and m+1, at the ends of the curve
\* too.
GetFitUsesThreeSamples ==
    FitCase => /\ LowestMaximum(gf.bestIndex)
               /\ gf.points = ThreeSamplesAround(gf.bestIndex)

\* the choice of the index, and the three points away from the two ends
GetFitUsesThreeSamplesInside ==
    FitCase => /\ LowestMaximum(gf.bestIndex)
               /\ (gf.bestIndex > 0 /\ gf.bestIndex < Len(gf.xcor) - 1)
                     => gf.points = ThreeSamplesAround(gf.bestIndex)

\* what the fit is handed at the two ends: nothing at index 0, the last two
\* samples at the last index
GetFitPointsAtTheEnds ==
    FitCase => /\ gf.bestIndex = 0 => gf.points = <<>>
               /\ gf.bestIndex = Len(gf.xcor) - 1 =>
                     gf.points = SubSeq(ThreeSamplesAround(gf.bestIndex), 1, 2)

\* C17: when normaliseMeanDev has left its clipping loop and divided, no
\* sample is larger in absolute value than clipValue + 0.01.
NormaliseMeanDevBounded ==
    md.pc = "done" =>
        \A k \in 1..Len(md.intensity) :
            JLe(JAbs(md.intensity[k]), JAdd(Int2Num(md.clipValue), <<1, 100>>))

\* on leaving the loop no sample exceeds the clip bound of the mean absolute
\* value that becomes the divisor
NormaliseMeanDevExitBound ==
    (md.pc = "divide" /\ md.intensity # <<>>) =>
        /\ md.meanDeviation = absMean(md.intensity)
        /\ JLe(absMax(md.intensity), clipBound(md.clipValue, md.meanDeviation))

\* the bound on the result whenever the divisor is not zero
NormaliseMeanDevBoundedNonZero ==
    (md.pc = "done" /\ md.meanDeviation # Int2Num(0)) =>
        \A k \in 1..Len(md.intensity) :
            JLe(JAbs(md.intensity[k]), JAdd(Int2Num(md.clipValue), <<1, 100>>))

\* within MaxClipPasses passes no array that was clipped has left the loop:
\* in exact arithmetic the clip bound shrinks with every clipping pass
ClippingNeverSettles ==
    (md.pc = "divide") => md.passes = 0

====
